---- MODULE Spec2Model ----
(***************************************************************************)
(* Model of index_converter.py: the marker splitter (extract_text), the    *)
(* index parser (parse_index, format_pages) and the driver (the main loop, *)
(* get_file_choice, write_csv_and_move).                                   *)
(*                                                                         *)
(* A Python str is modelled as a sequence of one-character strings, so     *)
(* that strip, split, endswith and the reference regex are computed        *)
(* character by character as the interpreter computes them.                *)
(***************************************************************************)
EXTENDS Integers, Sequences, FiniteSets

VARIABLES
    pc,               \* control position of the modelled call
    file,             \* extract_text: the file being read ([ext, body])
    lines,            \* the line sequence (result of extract_text, input of parse_index)
    idx,              \* parse_index: 1-based position of the for loop in lines
    current_subject,  \* parse_index local (line 95)
    book_pages,       \* parse_index local (line 96): book 1..6 -> list of page strings
    data,             \* parse_index local (line 94): the rows built so far
    first,            \* history: input and result of one earlier parse_index call
    driver            \* the main loop, get_file_choice and write_csv_and_move (see below)

vars == <<pc, file, lines, idx, current_subject, book_pages, data, first, driver>>

(***************************************************************************)
(* Bounds of the model.                                                    *)
(***************************************************************************)
MaxLines == 3      \* lines per parse_index input (Spec)
MaxCallLines == 2  \* lines per parse_index input when calls are repeated (SpecCalls)
MaxRefLen == 5     \* characters of a generated reference part (SpecRef)
MaxPieces == 3     \* pieces per file body (SpecExtract)
MaxFiles == 2      \* files in the Input folder (SpecDriver)

(***************************************************************************)
(* Characters and the str methods the program uses.                        *)
(***************************************************************************)
Letters ==
    {"a", "b", "c", "d", "e", "f", "g", "h", "i", "j", "k", "l", "m",
     "n", "o", "p", "q", "r", "s", "t", "u", "v", "w", "x", "y", "z",
     "A", "B", "C", "D", "E", "F", "G", "H", "I", "J", "K", "L", "M",
     "N", "O", "P", "Q", "R", "S", "T", "U", "V", "W", "X", "Y", "Z"}

DigitChars == <<"0", "1", "2", "3", "4", "5", "6", "7", "8", "9">>

Whitespace == {" ", "\t", "\n", "\r", "\f"}

IsAlpha(c) == c \in Letters

IsDigit(c) == \E d \in 1..10 : DigitChars[d] = c

IsSpace(c) == c \in Whitespace

DigitValue(c) == (CHOOSE d \in 1..10 : DigitChars[d] = c) - 1

\* int(book) on a string of decimal digits
RECURSIVE ToInt(_)
ToInt(ds) ==
    IF ds = <<>> THEN 0
    ELSE 10 * ToInt(SubSeq(ds, 1, Len(ds) - 1)) + DigitValue(ds[Len(ds)])

RECURSIVE LStrip(_)
LStrip(s) == IF s # <<>> /\ IsSpace(Head(s)) THEN LStrip(Tail(s)) ELSE s

RECURSIVE RStrip(_)
RStrip(s) ==
    IF s # <<>> /\ IsSpace(s[Len(s)]) THEN RStrip(SubSeq(s, 1, Len(s) - 1)) ELSE s

\* str.strip()
Strip(s) == RStrip(LStrip(s))

\* str.endswith(c) for a one-character c
EndsWith(s, c) == s # <<>> /\ s[Len(s)] = c

\* str.rstrip(c) for a one-character c: every trailing c is removed
RECURSIVE RStripChar(_, _)
RStripChar(s, c) ==
    IF EndsWith(s, c) THEN RStripChar(SubSeq(s, 1, Len(s) - 1), c) ELSE s

\* c in s
HasChar(s, c) == \E i \in 1..Len(s) : s[i] = c

\* index of the first position at or after i whose character is whitespace
\* (stopAtSpace) or is not (~stopAtSpace), or Len(s) + 1
RECURSIVE ScanTo(_, _, _)
ScanTo(s, i, stopAtSpace) ==
    IF i > Len(s) THEN i
    ELSE IF IsSpace(s[i]) = stopAtSpace THEN i
    ELSE ScanTo(s, i + 1, stopAtSpace)

\* index of the first c in s at or after i, or Len(s) + 1
RECURSIVE IndexOf(_, _, _)
IndexOf(s, c, i) ==
    IF i > Len(s) THEN i ELSE IF s[i] = c THEN i ELSE IndexOf(s, c, i + 1)

\* str.split(c): every segment between occurrences of c, empty ones included
RECURSIVE SplitChar(_, _)
SplitChar(s, c) ==
    LET k == IndexOf(s, c, 1)
    IN  IF k > Len(s) THEN <<s>>
        ELSE <<SubSeq(s, 1, k - 1)>> \o SplitChar(SubSeq(s, k + 1, Len(s)), c)

\* str.split(c, 1) when c occurs in s
SplitCharOnce(s, c) ==
    LET k == IndexOf(s, c, 1)
    IN  <<SubSeq(s, 1, k - 1), SubSeq(s, k + 1, Len(s))>>

\* str.split(None, 1): at most one split at the first run of whitespace
SplitWhitespaceOnce(s) ==
    LET t == LStrip(s)
        k == ScanTo(t, 1, TRUE)
        rest == LStrip(SubSeq(t, k, Len(t)))
    IN  IF t = <<>> THEN <<>>
        ELSE IF rest = <<>> THEN <<SubSeq(t, 1, k - 1)>>
        ELSE <<SubSeq(t, 1, k - 1), rest>>

\* sep.join(items)
RECURSIVE Join(_, _)
Join(items, sep) ==
    IF items = <<>> THEN <<>>
    ELSE IF Len(items) = 1 THEN items[1]
    ELSE items[1] \o sep \o Join(Tail(items), sep)

(***************************************************************************)
(* parse_index: the pieces of the loop body.                               *)
(***************************************************************************)
Books == 1..6

NoMatch == [matched |-> FALSE]

\* RefMatch, were the pattern (\d+):(\S+), with no blanks around the colon
RefMatchNoBlanks(s) ==
    LET d == CHOOSE n \in 0..Len(s) :
                 /\ \A i \in 1..n : IsDigit(s[i])
                 /\ n < Len(s) => ~IsDigit(s[n + 1])
        e == ScanTo(s, d + 2, TRUE)
    IN  IF d = 0 \/ d + 2 > Len(s) THEN NoMatch
        ELSE IF s[d + 1] # ":" \/ IsSpace(s[d + 2]) THEN NoMatch
        ELSE [matched |-> TRUE, book |-> SubSeq(s, 1, d), pages |-> SubSeq(s, d + 2, e - 1)]

\* ref_pattern.match(s) for (\d+)\s*:\s*(\S+): anchored at the start of s,
\* not at its end; the groups are the digits and the first run of non-blanks
RefMatch(s) ==
    LET d == CHOOSE n \in 0..Len(s) :
                 /\ \A i \in 1..n : IsDigit(s[i])
                 /\ n < Len(s) => ~IsDigit(s[n + 1])
        c == ScanTo(s, d + 1, FALSE)
        p == ScanTo(s, c + 1, FALSE)
        e == ScanTo(s, p, TRUE)
    IN  IF d = 0 \/ c > Len(s) THEN NoMatch
        ELSE IF s[c] # ":" \/ p > Len(s) THEN NoMatch
        ELSE [matched |-> TRUE, book |-> SubSeq(s, 1, d), pages |-> SubSeq(s, p, e - 1)]

EmptyBookPages == [i \in Books |-> <<>>]

\* AddRef, were a page already listed for the book not listed again
AddRefDropDuplicate(bp, ref) ==
    LET m == RefMatch(Strip(ref))
    IN  IF m.matched /\ ToInt(m.book) \in Books
           /\ \A k \in 1..Len(bp[ToInt(m.book)]) : bp[ToInt(m.book)][k] # m.pages
        THEN [bp EXCEPT ![ToInt(m.book)] = Append(@, m.pages)]
        ELSE bp

\* lines 115-120: one reference token
AddRef(bp, ref) ==
    LET m == RefMatch(Strip(ref))
    IN  IF m.matched /\ ToInt(m.book) >= 1 /\ ToInt(m.book) <= 6
        THEN [bp EXCEPT ![ToInt(m.book)] = Append(@, m.pages)]
        ELSE bp

\* lines 114-120: the for loop over refs
RECURSIVE AddRefs(_, _)
AddRefs(bp, refs) ==
    IF refs = <<>> THEN bp ELSE AddRefs(AddRef(bp, Head(refs)), Tail(refs))

\* Parts, were a line split at a tab only
PartsTabOnly(line) == IF HasChar(line, "\t") THEN SplitCharOnce(line, "\t") ELSE <<line>>

\* line 109
Parts(line) ==
    IF HasChar(line, "\t") THEN SplitCharOnce(line, "\t") ELSE SplitWhitespaceOnce(line)

\* line 113
Refs(part) == SplitChar(RStripChar(part, ","), ",")

\* format_pages, were every page quoted on its own
format_pages_quote_each(pages) ==
    Join([i \in 1..Len(pages) |-> <<"\"">> \o pages[i] \o <<"\"">>], <<",", " ">>)

\* format_pages, were the separator "," instead of ", "
format_pages_no_space(pages) ==
    IF pages = <<>> THEN <<>> ELSE <<"\"">> \o Join(pages, <<",">>) \o <<"\"">>

\* lines 129-132
format_pages(pages) ==
    IF pages = <<>> THEN <<>> ELSE <<"\"">> \o Join(pages, <<",", " ">>) \o <<"\"">>

\* lines 104, 122, 126: [current_subject] + [format_pages(book_pages[i]) for i in range(1, 7)]
SubjectRow(subject, bp) == <<subject>> \o [i \in Books |-> format_pages(bp[i])]

\* line 105: [line] + [""] * 6
DividerRow(line) == <<line>> \o [i \in Books |-> <<>>]

\* IsDivider, were isalpha() not tested
IsDividerAnyChar(line) == Len(line) = 1

\* line 102
IsDivider(line) == Len(line) = 1 /\ IsAlpha(line[1])

(***************************************************************************)
(* parse_index: the state machine.                                         *)
(***************************************************************************)
NoFile == [ext |-> "", body |-> <<>>]

NoCall == [called |-> FALSE]

NoDriver == [at |-> "none"]

CurrentLine == Strip(lines[idx])

InLoop == pc = "loop" /\ idx <= Len(lines)

\* Enter, were book_pages kept from the previous call
EnterKeepingPages(ls) ==
    /\ lines' = ls
    /\ data' = <<>>
    /\ current_subject' = <<>>
    /\ idx' = 1
    /\ pc' = "loop"
    /\ UNCHANGED book_pages

\* lines 93-96: parse_index is entered with the argument ls
Enter(ls) ==
    /\ lines' = ls
    /\ data' = <<>>
    /\ current_subject' = <<>>
    /\ book_pages' = EmptyBookPages
    /\ idx' = 1
    /\ pc' = "loop"

\* BlankLine, were a blank line the end of an entry
BlankLineResets ==
    /\ InLoop
    /\ CurrentLine = <<>>
    /\ current_subject' = <<>>
    /\ book_pages' = EmptyBookPages
    /\ idx' = idx + 1
    /\ UNCHANGED <<pc, file, lines, data, first, driver>>

\* lines 99-101: a line that is empty after strip()
BlankLine ==
    /\ InLoop
    /\ CurrentLine = <<>>
    /\ idx' = idx + 1
    /\ UNCHANGED <<pc, file, lines, current_subject, book_pages, data, first, driver>>

\* DividerLine, were the page lists not reset at line 107
DividerLineKeepingPages ==
    /\ InLoop
    /\ CurrentLine # <<>>
    /\ IsDivider(CurrentLine)
    /\ data' = (IF current_subject # <<>>
                THEN Append(data, SubjectRow(current_subject, book_pages))
                ELSE data) \o <<DividerRow(CurrentLine)>>
    /\ current_subject' = <<>>
    /\ idx' = idx + 1
    /\ UNCHANGED <<pc, file, lines, book_pages, first, driver>>

\* lines 102-107
DividerLine ==
    /\ InLoop
    /\ CurrentLine # <<>>
    /\ IsDivider(CurrentLine)
    /\ data' = (IF current_subject # <<>>
                THEN Append(data, SubjectRow(current_subject, book_pages))
                ELSE data) \o <<DividerRow(CurrentLine)>>
    /\ current_subject' = <<>>
    /\ book_pages' = EmptyBookPages
    /\ idx' = idx + 1
    /\ UNCHANGED <<pc, file, lines, first, driver>>

\* ContentLine, were the page lists not reset at line 124
ContentLineKeepingPages ==
    /\ InLoop
    /\ CurrentLine # <<>>
    /\ ~IsDivider(CurrentLine)
    /\ LET line == CurrentLine
           parts == Parts(line)
           subject == IF Len(parts) > 1 /\ current_subject = <<>> /\ ~EndsWith(line, ",")
                      THEN Strip(parts[1])
                      ELSE current_subject
           pages == IF Len(parts) > 1 THEN AddRefs(book_pages, Refs(parts[2]))
                    ELSE book_pages
       IN  IF ~EndsWith(line, ",") /\ subject # <<>>
           THEN /\ data' = Append(data, SubjectRow(subject, pages))
                /\ current_subject' = <<>>
                /\ book_pages' = pages
           ELSE /\ data' = data
                /\ current_subject' = subject
                /\ book_pages' = pages
    /\ idx' = idx + 1
    /\ UNCHANGED <<pc, file, lines, first, driver>>

\* ContentLine, were the subject captured at line 111 whether or not the line
\* ends with a comma
ContentLineCapturing ==
    /\ InLoop
    /\ CurrentLine # <<>>
    /\ ~IsDivider(CurrentLine)
    /\ LET line == CurrentLine
           parts == Parts(line)
           subject == IF Len(parts) > 1 /\ current_subject = <<>>
                      THEN Strip(parts[1])
                      ELSE current_subject
           pages == IF Len(parts) > 1 THEN AddRefs(book_pages, Refs(parts[2]))
                    ELSE book_pages
       IN  IF ~EndsWith(line, ",") /\ subject # <<>>
           THEN /\ data' = Append(data, SubjectRow(subject, pages))
                /\ current_subject' = <<>>
                /\ book_pages' = EmptyBookPages
           ELSE /\ data' = data
                /\ current_subject' = subject
                /\ book_pages' = pages
    /\ idx' = idx + 1
    /\ UNCHANGED <<pc, file, lines, first, driver>>

\* ContentLine, were the row not written at lines 121-124 but left to the
\* flush of the next divider or of the end of input
ContentLineNoFlush ==
    /\ InLoop
    /\ CurrentLine # <<>>
    /\ ~IsDivider(CurrentLine)
    /\ LET line == CurrentLine
           parts == Parts(line)
       IN  /\ current_subject' =
                  (IF Len(parts) > 1 /\ current_subject = <<>> /\ ~EndsWith(line, ",")
                   THEN Strip(parts[1])
                   ELSE current_subject)
           /\ book_pages' = (IF Len(parts) > 1 THEN AddRefs(book_pages, Refs(parts[2]))
                             ELSE book_pages)
    /\ idx' = idx + 1
    /\ UNCHANGED <<pc, file, lines, data, first, driver>>

\* lines 108-124
ContentLine ==
    /\ InLoop
    /\ CurrentLine # <<>>
    /\ ~IsDivider(CurrentLine)
    /\ LET line == CurrentLine
           parts == Parts(line)
           subject == IF Len(parts) > 1 /\ current_subject = <<>> /\ ~EndsWith(line, ",")
                      THEN Strip(parts[1])
                      ELSE current_subject
           pages == IF Len(parts) > 1 THEN AddRefs(book_pages, Refs(parts[2]))
                    ELSE book_pages
       IN  IF ~EndsWith(line, ",") /\ subject # <<>>
           THEN /\ data' = Append(data, SubjectRow(subject, pages))
                /\ current_subject' = <<>>
                /\ book_pages' = EmptyBookPages
           ELSE /\ data' = data
                /\ current_subject' = subject
                /\ book_pages' = pages
    /\ idx' = idx + 1
    /\ UNCHANGED <<pc, file, lines, first, driver>>

\* lines 125-127: after the loop
Return ==
    /\ pc = "loop"
    /\ idx > Len(lines)
    /\ data' = (IF current_subject # <<>>
                THEN Append(data, SubjectRow(current_subject, book_pages))
                ELSE data)
    /\ pc' = "done"
    /\ UNCHANGED <<file, lines, idx, current_subject, book_pages, first, driver>>

(***************************************************************************)
(* Inputs of parse_index.                                                  *)
(***************************************************************************)
Tab == <<"\t">>

L_A == <<"A">>
L_Apples56 == <<"A", "p", "p", "l", "e", "s", "\t", "1", ":", "5", ",", "1", ":", "6">>
L_Bananas == <<"B", "a", "n", "a", "n", "a", "s", "\t", "2", ":", "9">>
L_ApplesCont == <<"A", "p", "p", "l", "e", "s", "\t", "1", ":", "1", "0", ",", " ", "2", ":", "2", "0", ",">>
L_Tab330 == <<"\t", "3", ":", "3", "0">>
L_Blank == <<" ", "\t">>
L_Seven == <<"7">>
L_PaddedB == <<" ", "b", " ">>
L_Word == <<"F", "i", "g", "s">>
L_Mixed == <<"K", "i", "w", "i", " ", "3", " ", ":", " ", "4", "5", "a", ",", " ", "7", ":", "1", "2", ",", "a", "b", "c", ",", "0", ":", "3", ",", "3", ":", "4", "5">>
L_Dups == <<"P", "l", "u", "m", " ", "1", ":", "7", ",", "1", ":", "3", ",", "2", ":", "8", ",", "1", ":", "7", ",", ",">>
L_LetterRef == <<"C", " ", "7", ":", "1">>

LinePool ==
    {L_A, L_Apples56, L_Bananas, L_ApplesCont, L_Tab330, L_Blank, L_Seven,
     L_PaddedB, L_Word, L_Mixed, L_Dups, L_LetterRef}

SeqsUpTo(S, n) == UNION {[1..k -> S] : k \in 0..n}

Inputs == SeqsUpTo(LinePool, MaxLines)

(***************************************************************************)
(* Spec: one call parse_index(lines), with lines drawn from Inputs.        *)
(***************************************************************************)
Init ==
    /\ pc = "loop"
    /\ file = NoFile
    /\ lines \in Inputs
    /\ idx = 1
    /\ current_subject = <<>>
    /\ book_pages = EmptyBookPages
    /\ data = <<>>
    /\ first = NoCall
    /\ driver = NoDriver

Next == BlankLine \/ DividerLine \/ ContentLine \/ Return

Spec == Init /\ [][Next]_vars

(***************************************************************************)
(* SpecRef: parse_index on one content line "x<TAB><r>," whose reference   *)
(* part r is every string over RefAlphabet of at most MaxRefLen            *)
(* characters, and the reference tokens the specification names.           *)
(***************************************************************************)
RefAlphabet == {"0", "3", "7", ":", " ", ",", "a"}

R_3_45 == <<"3", ":", "4", "5">>
R_3_45a == <<"3", " ", ":", " ", "4", "5", "a">>
R_7_12 == <<"7", ":", "1", "2">>
R_0_3 == <<"0", ":", "3">>
R_abc == <<"a", "b", "c">>

RefParts == SeqsUpTo(RefAlphabet, MaxRefLen) \cup {R_3_45, R_3_45a, R_7_12, R_0_3, R_abc}

RefLine(r) == <<"x", "\t">> \o r \o <<",">>

InitRef ==
    /\ pc = "loop"
    /\ file = NoFile
    /\ lines \in {<<RefLine(r)>> : r \in RefParts}
    /\ idx = 1
    /\ current_subject = <<>>
    /\ book_pages = EmptyBookPages
    /\ data = <<>>
    /\ first = NoCall
    /\ driver = NoDriver

NextRef == ContentLine \/ Return

SpecRef == InitRef /\ [][NextRef]_vars

(***************************************************************************)
(* SpecCalls: parse_index called again and again, as the driver does for   *)
(* file after file and on retry; first keeps the argument and the result   *)
(* of one earlier call.                                                    *)
(***************************************************************************)
CallPool == {L_A, L_ApplesCont, L_Bananas, L_Tab330, L_Blank}

CallInputs == SeqsUpTo(CallPool, MaxCallLines)

InitCalls ==
    /\ pc = "loop"
    /\ file = NoFile
    /\ lines \in CallInputs
    /\ idx = 1
    /\ current_subject = <<>>
    /\ book_pages = EmptyBookPages
    /\ data = <<>>
    /\ first = NoCall
    /\ driver = NoDriver

\* lines 204, 219, 230, 164: the next call of parse_index
Call ==
    /\ pc = "done"
    /\ \E ls \in CallInputs : Enter(ls)
    /\ UNCHANGED <<file, first, driver>>

\* history only: the call that has just returned is the one kept in first
Remember ==
    /\ pc = "done"
    /\ ~first.called
    /\ first' = [called |-> TRUE, arg |-> lines, result |-> data]
    /\ UNCHANGED <<pc, file, lines, idx, current_subject, book_pages, data, driver>>

NextCalls == BlankLine \/ DividerLine \/ ContentLine \/ Return \/ Call \/ Remember

SpecCalls == InitCalls /\ [][NextCalls]_vars

(***************************************************************************)
(* extract_text: the marker splitter.                                      *)
(***************************************************************************)
\* line 76
marker ==
    <<"I", "n", "d", "e", "x", "\n", "N", "o", "t", "e", ":", " ", "T", "h", "e", " ",
      "n", "u", "m", "b", "e", "r", "s", " ", "i", "n", "d", "i", "c", "a", "t", "e", " ",
      "t", "h", "e", " ", "b", "o", "o", "k", " ", "n", "u", "m", "b", "e", "r", ",", " ",
      "f", "o", "l", "l", "o", "w", "e", "d", " ", "b", "y", " ", "t", "h", "e", " ",
      "p", "a", "g", "e", " ", "n", "u", "m", "b", "e", "r", ".">>

\* s[p..] starts with m
StartsAt(s, m, p) ==
    /\ p + Len(m) - 1 <= Len(s)
    /\ s[p] = m[1]
    /\ SubSeq(s, p, p + Len(m) - 1) = m

\* str.find(m) from position p on: the first p' >= p where m starts, or 0
Find(s, m, p) ==
    LET hits == {q \in p..(Len(s) - Len(m) + 1) : StartsAt(s, m, q)}
    IN  IF hits = {} THEN 0 ELSE CHOOSE q \in hits : \A r \in hits : q <= r

\* str.rfind(m): the last position where m starts, or 0
FindLast(s, m) ==
    LET hits == {q \in 1..(Len(s) - Len(m) + 1) : StartsAt(s, m, q)}
    IN  IF hits = {} THEN 0 ELSE CHOOSE q \in hits : \A r \in hits : r <= q

\* m in s
In(m, s) == Find(s, m, 1) # 0

\* SplitOnce, were the split made at the last occurrence (rsplit)
SplitAtLast(s, m) ==
    LET p == FindLast(s, m)
    IN  <<SubSeq(s, 1, p - 1), SubSeq(s, p + Len(m), Len(s))>>

\* s.split(m, 1) when m is in s
SplitOnce(s, m) ==
    LET p == Find(s, m, 1)
    IN  <<SubSeq(s, 1, p - 1), SubSeq(s, p + Len(m), Len(s))>>

\* AfterMarker, were the whole text kept when the marker is absent
AfterMarkerOrAll(full_text) ==
    IF In(marker, full_text) THEN Strip(SplitOnce(full_text, marker)[2]) ELSE Strip(full_text)

\* lines 81, 85, 89: full_text.split(marker, 1)[1].strip() if marker in full_text else ""
AfterMarker(full_text) ==
    IF In(marker, full_text) THEN Strip(SplitOnce(full_text, marker)[2]) ELSE <<>>

LineBreaks == {"\n", "\r", "\f"}

\* str.splitlines(): "\r\n" is one break, and a final break opens no line
RECURSIVE SplitLines(_)
SplitLines(s) ==
    LET brk == {i \in 1..Len(s) : s[i] \in LineBreaks}
        k == CHOOSE i \in brk : \A j \in brk : i <= j
        next == IF s[k] = "\r" /\ k < Len(s) /\ s[k + 1] = "\n" THEN k + 2 ELSE k + 1
    IN  IF s = <<>> THEN <<>>
        ELSE IF brk = {} THEN <<s>>
        ELSE <<SubSeq(s, 1, k - 1)>> \o SplitLines(SubSeq(s, next, Len(s)))

\* open(file_path, "r") reads with universal newlines: "\r\n" and "\r" become
\* "\n", that is, a "\n" right after a "\r" is dropped and every "\r" is a "\n"
ReadText(raw) ==
    LET paired == [i \in 1..Len(raw) |-> <<raw[i], IF i > 1 THEN raw[i - 1] ELSE "">>]
        kept == SelectSeq(paired, LAMBDA z : ~(z[1] = "\n" /\ z[2] = "\r"))
    IN  [i \in 1..Len(kept) |-> IF kept[i][1] = "\r" THEN "\n" ELSE kept[i][1]]

\* a pdf page of which extract_text() gives None
NoText == <<"None">>

RECURSIVE Concat(_)
Concat(items) == IF items = <<>> THEN <<>> ELSE Head(items) \o Concat(Tail(items))

\* lines 80, 84, 88: the text of the document; the body of a docx is its
\* paragraphs, of a pdf its pages, of a txt its content piece after piece
FullText(f) ==
    IF f.ext = "docx" THEN Join(f.body, <<"\n">>)
    ELSE IF f.ext = "pdf"
         THEN Join([i \in 1..Len(f.body) |->
                       IF f.body[i] = NoText THEN <<>> ELSE f.body[i]], <<"\n">>)
    ELSE IF f.ext = "txt" THEN ReadText(Concat(f.body))
    ELSE <<>>

\* lines 74-90; f.ext is the extension as line 75 computes it
extract_text(f) ==
    SplitLines(IF f.ext \in {"docx", "pdf", "txt"} THEN AfterMarker(FullText(f)) ELSE <<>>)

ExtractText ==
    /\ pc = "extract"
    /\ lines' = extract_text(file)
    /\ pc' = "extracted"
    /\ UNCHANGED <<file, idx, current_subject, book_pages, data, first, driver>>

(***************************************************************************)
(* SpecExtract: extract_text on one file, its body made of at most         *)
(* MaxPieces pieces.                                                       *)
(***************************************************************************)
P_Index == <<"I", "n", "d", "e", "x">>
P_LowerIndex == <<"i", "n", "d", "e", "x">>
P_Note == SubSeq(marker, 7, Len(marker))
P_Newline == <<"\n">>
P_ReturnNewline == <<"\r", "\n">>
P_Entry == <<" ", "A", "p", "p", "l", "e", "s", "\t", "1", ":", "5", " ">>
P_TwoLines == <<"B", "\n", "b", " ", "2", ":", "9", "\n">>

Pieces ==
    {marker, P_Index, P_LowerIndex, P_Note, P_Newline, P_ReturnNewline, P_Entry, P_TwoLines}

Files ==
    [ext : {"docx", "txt", "csv"}, body : SeqsUpTo(Pieces, MaxPieces)]
    \cup [ext : {"pdf"}, body : SeqsUpTo(Pieces \cup {NoText}, MaxPieces)]

InitExtract ==
    /\ pc = "extract"
    /\ file \in Files
    /\ lines = <<>>
    /\ idx = 1
    /\ current_subject = <<>>
    /\ book_pages = EmptyBookPages
    /\ data = <<>>
    /\ first = NoCall
    /\ driver = NoDriver

NextExtract == ExtractText

SpecExtract == InitExtract /\ [][NextExtract]_vars

(***************************************************************************)
(* The driver: the main loop (lines 176-234), get_file_choice (lines       *)
(* 48-71) and write_csv_and_move (lines 135-168). One action is the code   *)
(* between two prompts; parse_index runs line by line in between, through  *)
(* the actions above. The fields of the record driver:                     *)
(*   at          position: "menu" (line 179), "choose" (line 58),          *)
(*               "convert" (lines 199, 216, 226), "parsing" (parse_index   *)
(*               is running), "move" (line 149), "retry" (line 224),       *)
(*               "exited"                                                  *)
(*   dir         the files ever put in the Input folder, a file being its  *)
(*               position in dir; present: those still in the folder       *)
(*   type        file_type (line 185)                                      *)
(*   listing     files of get_file_choice (line 49)                        *)
(*   choice      the answer the last step read from input(), if any        *)
(*   selected, files, convert_all   what line 191 receives; selected is    *)
(*               "files is not None"                                       *)
(*   fi          position of the for loop of line 196 in files (1 in a     *)
(*               single-file conversion)                                   *)
(*   attempt     line 197                                                  *)
(*   tried       history: the attempts begun for files[fi] in the loop of  *)
(*               line 199                                                  *)
(*   ctx         the try block that is open in the main loop: "all" (line  *)
(*               200), "single" (line 215), "retry" (line 226)             *)
(*   nested      write_csv_and_move is running inside its own retry (line  *)
(*               165)                                                      *)
(*   written     the CSV file the last step wrote (lines 139-142), if any  *)
(*   log         the entries the last step appended to conversion_log.txt  *)
(* A variable that the program assigns before it reads it again is dead,   *)
(* and the model clears it: the locals of parse_index when the rows are    *)
(* written, and the selection and the loop variables when the main loop    *)
(* is back at its menu.                                                    *)
(***************************************************************************)
\* line 198
max_attempts == 3

None == "None"

NoCsv == [file |-> 0, rows |-> <<>>]

NoAnswer == <<"no answer">>

\* a step begins: nothing read, logged or written yet
Quiet(d) == [d EXCEPT !.choice = NoAnswer, !.log = <<>>, !.written = NoCsv]

\* line 176: the main loop is at its menu again
AtMenu(d) ==
    [d EXCEPT !.at = "menu", !.type = "", !.listing = <<>>, !.selected = FALSE,
              !.files = <<>>, !.convert_all = None, !.fi = 1, !.attempt = 0,
              !.tried = 0, !.ctx = "none", !.nested = FALSE]

\* str.lower() of an answer
Lower(s) ==
    [i \in 1..Len(s) |->
        CASE s[i] = "Y" -> "y" [] s[i] = "N" -> "n" [] s[i] = "R" -> "r" [] OTHER -> s[i]]

\* int(s): blanks around, an optional sign, digits with single underscores
\* between them; ok is FALSE for ValueError
IntText(s) ==
    LET t == Strip(s)
        signed == t # <<>> /\ t[1] \in {"+", "-"}
        body == IF signed THEN Tail(t) ELSE t
        wellFormed ==
            /\ body # <<>>
            /\ \A i \in 1..Len(body) :
                \/ IsDigit(body[i])
                \/ /\ body[i] = "_"
                   /\ 1 < i
                   /\ i < Len(body)
                   /\ IsDigit(body[i - 1])
                   /\ IsDigit(body[i + 1])
        digits == SelectSeq(body, IsDigit)
    IN  IF ~wellFormed THEN [ok |-> FALSE, value |-> 0]
        ELSE [ok |-> TRUE,
              value |-> IF signed /\ t[1] = "-" THEN 0 - ToInt(digits) ELSE ToInt(digits)]

\* s[i] of a Python list, i counted from 0 and a negative i from the end; ok
\* is FALSE for IndexError
Subscript(s, i) ==
    IF 0 <= i /\ i < Len(s) THEN [ok |-> TRUE, item |-> s[i + 1]]
    ELSE IF 0 - Len(s) <= i /\ i < 0 THEN [ok |-> TRUE, item |-> s[Len(s) + i + 1]]
    ELSE [ok |-> FALSE, item |-> 0]

\* an entry of the log: its text, and the file, attempt and error it names
Message(text, f, n, e) == [text |-> text, file |-> f, attempt |-> n, error |-> e]

NoIndexDataFound == "No index data found after marker"
CannotRead == "cannot read the file"
CannotWrite == "cannot write the CSV"

\* lines 59-71: what get_file_choice does with the answer, listing being the
\* non-empty list of line 49
get_file_choice(listing, choice) ==
    IF choice = <<"4">>
    THEN [exits |-> TRUE, selected |-> FALSE, files |-> <<>>, convert_all |-> None,
          log |-> <<Message("User quit from file selection", 0, 0, "")>>]
    ELSE IF choice = <<"0">>
    THEN [exits |-> FALSE, selected |-> TRUE, files |-> listing, convert_all |-> "True",
          log |-> <<>>]
    ELSE LET file_num == IntText(choice)
             picked == Subscript(listing, file_num.value - 1)
         IN  IF file_num.ok /\ picked.ok
             THEN [exits |-> FALSE, selected |-> TRUE, files |-> <<picked.item>>,
                   convert_all |-> IF 1 <= file_num.value /\ file_num.value <= Len(listing)
                                   THEN "False" ELSE None,
                   log |-> <<>>]
             ELSE [exits |-> FALSE, selected |-> FALSE, files |-> <<>>,
                   convert_all |-> None,
                   log |-> <<Message("Invalid file selection", 0, 0, "")>>]

\* line 184
file_types(choice) ==
    CASE choice = <<"1">> -> "docx"
      [] choice = <<"2">> -> "pdf"
      [] choice = <<"3">> -> "txt"
      [] OTHER -> ""

\* line 49: the files of the type that are in the Input folder
Glob(d, type) ==
    SelectSeq([i \in 1..Len(d.dir) |-> i],
              LAMBDA i : i \in d.present /\ d.dir[i].ext = type)

\* the file the driver is converting
CurrentFile == driver.files[driver.fi]

\* extract_text(file) returns: the file is there and can be read
Readable(f) == f \in driver.present /\ driver.dir[f].readable

\* NoIndexData, were an empty line sequence passed on to parse_index
NoIndexDataNever(ls) == FALSE

\* lines 202, 217, 228, 162: not lines
NoIndexData(ls) == ls = <<>>

\* lines 196-198: the for loop goes to the next file, or ends
NextFile(d) ==
    IF d.fi + 1 > Len(d.files) THEN AtMenu(d)
    ELSE [d EXCEPT !.fi = d.fi + 1, !.attempt = 0, !.tried = 0, !.nested = FALSE,
                   !.at = "convert"]

\* write_csv_and_move has returned to the main loop: line 206, or the end of
\* the try blocks of lines 215 and 226
Returned(d) ==
    IF d.ctx = "all" THEN NextFile(d) ELSE AtMenu(d)

\* Failed, were the exception of the last attempt to leave the for loop
FailedAbortsAll(d, f, e) ==
    IF d.ctx = "all"
    THEN LET logged == [d EXCEPT !.attempt = d.attempt + 1,
                                 !.log = <<Message("Attempt failed", f, d.attempt + 1, e)>>]
         IN  IF logged.attempt = max_attempts
             THEN AtMenu(logged)
             ELSE [logged EXCEPT !.at = "convert"]
    ELSE IF d.ctx = "single"
    THEN [d EXCEPT !.log = <<Message("Error processing", f, 0, e)>>, !.at = "retry"]
    ELSE AtMenu([d EXCEPT !.log = <<Message("Retry failed", f, 0, e)>>])

\* the except clauses of the main loop: lines 207-213, 221-224, 232-234
Failed(d, f, e) ==
    IF d.ctx = "all"
    THEN LET logged == [d EXCEPT !.attempt = d.attempt + 1,
                                 !.log = <<Message("Attempt failed", f, d.attempt + 1, e)>>]
         IN  IF logged.attempt = max_attempts
             THEN NextFile(logged)
             ELSE [logged EXCEPT !.at = "convert"]
    ELSE IF d.ctx = "single"
    THEN [d EXCEPT !.log = <<Message("Error processing", f, 0, e)>>, !.at = "retry"]
    ELSE AtMenu([d EXCEPT !.log = <<Message("Retry failed", f, 0, e)>>])

TypeChoices == {<<"1">>, <<"2">>, <<"3">>, <<"4">>, <<"x">>}

FileChoices ==
    {<<"0">>, <<"1">>, <<"2">>, <<"3">>, <<"4">>, <<"-", "1">>, <<" ", "0", "2">>, <<"x">>}

MoveAnswers == {<<"y">>, <<"n">>, <<"r">>, <<"R">>}

RetryAnswers == {<<"y">>, <<"Y">>, <<"n">>}

\* lines 176-189: the file type menu
ChooseType ==
    /\ pc = "driver"
    /\ driver.at = "menu"
    /\ \E choice \in TypeChoices :
        LET d == [Quiet(driver) EXCEPT !.choice = choice]
        IN  driver' =
                IF choice = <<"4">>
                THEN [d EXCEPT !.at = "exited",
                               !.log = <<Message("User quit from file type menu", 0, 0, "")>>]
                ELSE IF file_types(choice) = ""
                THEN [d EXCEPT !.log = <<Message("Invalid file type selection", 0, 0, "")>>]
                ELSE [d EXCEPT !.type = file_types(choice), !.at = "choose"]
    /\ UNCHANGED <<pc, file, lines, idx, current_subject, book_pages, data, first>>

\* lines 191-198 with get_file_choice, lines 48-71
GetFileChoice ==
    /\ pc = "driver"
    /\ driver.at = "choose"
    /\ LET listing == Glob(driver, driver.type)
           d == [Quiet(driver) EXCEPT !.listing = listing]
       IN  IF listing = <<>>
           THEN driver' = AtMenu(d)
           ELSE \E choice \in FileChoices :
                   LET r == get_file_choice(listing, choice)
                       got == [d EXCEPT !.choice = choice, !.log = r.log,
                                        !.selected = r.selected, !.files = r.files,
                                        !.convert_all = r.convert_all,
                                        !.fi = 1, !.attempt = 0, !.tried = 0,
                                        !.nested = FALSE]
                   IN  driver' =
                           IF r.exits THEN [got EXCEPT !.at = "exited"]
                           ELSE IF ~r.selected THEN AtMenu(got)
                           ELSE IF r.convert_all = "True"
                           THEN [got EXCEPT !.ctx = "all", !.at = "convert"]
                           ELSE [got EXCEPT !.ctx = "single", !.at = "convert"]
    /\ UNCHANGED <<pc, file, lines, idx, current_subject, book_pages, data, first>>

\* lines 201-204, 216-219, 227-230: extract_text, the check for index data,
\* and the call of parse_index
Convert ==
    /\ pc = "driver"
    /\ driver.at = "convert"
    /\ LET f == CurrentFile
           d == [Quiet(driver) EXCEPT !.tried = IF driver.ctx = "all" THEN @ + 1 ELSE @]
       IN  IF ~Readable(f)
           THEN /\ driver' = Failed(d, f, CannotRead)
                /\ UNCHANGED <<pc, lines, idx, current_subject, book_pages, data>>
           ELSE IF NoIndexData(extract_text(driver.dir[f]))
           THEN /\ driver' = Failed(d, f, NoIndexDataFound)
                /\ lines' = extract_text(driver.dir[f])
                /\ UNCHANGED <<pc, idx, current_subject, book_pages, data>>
           ELSE /\ driver' = [d EXCEPT !.at = "parsing"]
                /\ Enter(extract_text(driver.dir[f]))
    /\ UNCHANGED <<file, first>>

\* lines 136-144: parse_index has returned, the CSV is written and the file
\* logged as processed; or open() raises
WriteCsv ==
    /\ pc = "done"
    /\ driver.at = "parsing"
    /\ \E written \in BOOLEAN :
        LET f == CurrentFile
            d == Quiet(driver)
        IN  driver' =
                IF written
                THEN [d EXCEPT !.written = [file |-> f, rows |-> data],
                               !.log = <<Message("Processed", f, 0, "")>>,
                               !.at = "move"]
                ELSE IF d.nested
                THEN Returned([d EXCEPT !.log = <<Message("Retry failed", f, 0, CannotWrite)>>])
                ELSE Failed(d, f, CannotWrite)
    /\ pc' = "driver"
    /\ lines' = <<>>
    /\ idx' = 1
    /\ current_subject' = <<>>
    /\ book_pages' = EmptyBookPages
    /\ data' = <<>>
    /\ UNCHANGED <<file, first>>

\* lines 149-168: the answer to "Move ... to Completed? (y/n/r for retry)"
MovePrompt ==
    /\ pc = "driver"
    /\ driver.at = "move"
    /\ \E answer \in MoveAnswers, moved \in BOOLEAN :
        LET f == CurrentFile
            move == Lower(answer)
            d == [Quiet(driver) EXCEPT !.choice = answer]
        IN  IF move = <<"y">>
            THEN /\ driver' =
                        IF moved /\ f \in d.present
                        THEN Returned([d EXCEPT !.present = @ \ {f},
                                                !.log = <<Message("Moved", f, 0, "")>>])
                        ELSE Returned([d EXCEPT !.log = <<Message("Failed to move", f, 0, "")>>])
                 /\ UNCHANGED <<pc, file, lines, idx, current_subject, book_pages, data>>
            ELSE IF move = <<"r">>
            THEN IF ~Readable(f)
                 THEN /\ driver' = Returned([d EXCEPT
                                        !.log = <<Message("Retry failed", f, 0, CannotRead)>>])
                      /\ UNCHANGED <<pc, file, lines, idx, current_subject, book_pages, data>>
                 ELSE IF NoIndexData(extract_text(driver.dir[f]))
                 THEN /\ driver' = Returned([d EXCEPT
                                        !.log = <<Message("Retry failed", f, 0, NoIndexDataFound)>>])
                      /\ lines' = extract_text(driver.dir[f])
                      /\ UNCHANGED <<pc, file, idx, current_subject, book_pages, data>>
                 ELSE /\ driver' = [d EXCEPT !.at = "parsing", !.nested = TRUE]
                      /\ Enter(extract_text(driver.dir[f]))
                      /\ UNCHANGED file
            ELSE /\ driver' = Returned(d)
                 /\ UNCHANGED <<pc, file, lines, idx, current_subject, book_pages, data>>
    /\ UNCHANGED first

\* lines 224-225: the answer to "Retry conversion? (y/n)"
RetryPrompt ==
    /\ pc = "driver"
    /\ driver.at = "retry"
    /\ \E answer \in RetryAnswers :
        LET d == [Quiet(driver) EXCEPT !.choice = answer]
        IN  driver' = IF Lower(answer) = <<"y">>
                      THEN [d EXCEPT !.ctx = "retry", !.at = "convert"]
                      ELSE AtMenu(d)
    /\ UNCHANGED <<pc, file, lines, idx, current_subject, book_pages, data, first>>

(***************************************************************************)
(* SpecDriver: the program run on an Input folder of at most MaxFiles      *)
(* files, each one of the files of FilePool; while the program waits for   *)
(* an answer the user may replace a file of the folder by another one of   *)
(* the same name.                                                          *)
(***************************************************************************)
\* a txt file with the marker and, after it, a divider, an entry, an empty
\* line and an entry
F_Index ==
    [ext |-> "txt", body |-> <<marker, P_Newline, P_TwoLines, P_Newline, P_Entry>>,
     readable |-> TRUE]

\* a txt file without the marker
F_Plain == [ext |-> "txt", body |-> <<P_Entry>>, readable |-> TRUE]

\* a txt file that open() or read() fails on
F_Damaged == [ext |-> "txt", body |-> <<>>, readable |-> FALSE]

FilePool == {F_Index, F_Plain, F_Damaged}

Folders == SeqsUpTo(FilePool, MaxFiles)

InitDriver ==
    /\ pc = "driver"
    /\ file = NoFile
    /\ lines = <<>>
    /\ idx = 1
    /\ current_subject = <<>>
    /\ book_pages = EmptyBookPages
    /\ data = <<>>
    /\ first = NoCall
    /\ driver \in {[at |-> "menu", dir |-> folder, present |-> 1..Len(folder),
                    type |-> "", listing |-> <<>>, choice |-> NoAnswer,
                    selected |-> FALSE, files |-> <<>>, convert_all |-> None,
                    fi |-> 1, attempt |-> 0, tried |-> 0, ctx |-> "none",
                    nested |-> FALSE, written |-> NoCsv, log |-> <<>>] : folder \in Folders}

\* lines 179, 58, 149, 224: the program waits at input(); the user replaces the
\* content of a file of the Input folder
EditFile ==
    /\ pc = "driver"
    /\ driver.at \in {"menu", "choose", "move", "retry"}
    /\ \E f \in driver.present, content \in FilePool :
        /\ content # driver.dir[f]
        /\ driver' = [Quiet(driver) EXCEPT !.dir[f] = content]
    /\ UNCHANGED <<pc, file, lines, idx, current_subject, book_pages, data, first>>

NextDriver ==
    \/ EditFile
    \/ ChooseType
    \/ GetFileChoice
    \/ Convert
    \/ BlankLine
    \/ DividerLine
    \/ ContentLine
    \/ Return
    \/ WriteCsv
    \/ MovePrompt
    \/ RetryPrompt

SpecDriver == InitDriver /\ [][NextDriver]_vars

(***************************************************************************)
(* What the properties below speak of, stated from the index text itself   *)
(* and not through the operators of the parser.                            *)
(***************************************************************************)
SetMin(S) == CHOOSE x \in S : \A y \in S : x <= y

SetMax(S) == CHOOSE x \in S : \A y \in S : y <= x

\* s without its leading and trailing whitespace
Trimmed(s) ==
    LET solid == {i \in 1..Len(s) : ~IsSpace(s[i])}
    IN  IF solid = {} THEN <<>> ELSE SubSeq(s, SetMin(solid), SetMax(solid))

\* the comma-separated tokens of s, each trimmed, in their order in s: the
\* k-th lies between the (k-1)-th and the k-th of the positions that delimit
\* the tokens
Tokens(s) ==
    LET cuts == {0, Len(s) + 1} \cup {i \in 1..Len(s) : s[i] = ","}
        cut == [n \in 0..(Cardinality(cuts) - 1) |->
                   CHOOSE c \in cuts : Cardinality({x \in cuts : x < c}) = n]
    IN  [k \in 1..(Cardinality(cuts) - 1) |->
            Trimmed(SubSeq(s, cut[k - 1] + 1, cut[k] - 1))]

\* the page strings p for which t reads <integer b> <blanks> : <blanks> <p>,
\* p being the whole run of non-blanks after the colon. Only digits and
\* blanks precede that colon, so it is the first colon of t; the integer is
\* b when its last digit is b and the digits before it are zeros
PagesRead(t, b) ==
    LET colons == {i \in 1..Len(t) : t[i] = ":"}
        c == SetMin(colons)
        ds == {d \in 1..(c - 1) :
                  /\ t[d] = DigitChars[b + 1]
                  /\ \A i \in 1..(d - 1) : t[i] = "0"
                  /\ \A i \in (d + 1)..(c - 1) : IsSpace(t[i])}
        ss == {s \in (c + 1)..Len(t) :
                  /\ ~IsSpace(t[s])
                  /\ \A i \in (c + 1)..(s - 1) : IsSpace(t[i])}
        last(s) == SetMin({e \in s..Len(t) : e = Len(t) \/ IsSpace(t[e + 1])})
    IN  IF colons = {} THEN {}
        ELSE IF ds = {} THEN {}
        ELSE {SubSeq(t, s, last(s)) : s \in ss}

\* the pages that the reference list s gives for book b, in the order written
PagesAmong(tokens, b) ==
    LET hits == SelectSeq(tokens, LAMBDA t : PagesRead(t, b) # {})
    IN  [n \in 1..Len(hits) |-> CHOOSE p \in PagesRead(hits[n], b) : TRUE]

PagesWritten(s, b) == PagesAmong(Tokens(s), b)

SixEmpty == <<<<>>, <<>>, <<>>, <<>>, <<>>, <<>>>>

\* line k of the input, trimmed
LineAt(k) == Trimmed(lines[k])

IsLetterLine(line) == Len(line) = 1 /\ line[1] \in Letters

\* a content line: not blank, not a single letter
IsContent(line) == line # <<>> /\ ~IsLetterLine(line)

\* a content line with a separator between subject and references
HasSeparator(line) == IsContent(line) /\ \E i \in 1..Len(line) : IsSpace(line[i])

\* where the separator of a content line begins and ends: the first tab when
\* there is one, else the first run of whitespace
SeparatorStart(line) ==
    IF \E i \in 1..Len(line) : line[i] = "\t"
    THEN SetMin({i \in 1..Len(line) : line[i] = "\t"})
    ELSE SetMin({i \in 1..Len(line) : IsSpace(line[i])})

SeparatorEnd(line) ==
    IF \E i \in 1..Len(line) : line[i] = "\t"
    THEN SeparatorStart(line)
    ELSE SetMin({i \in SeparatorStart(line)..(Len(line) - 1) : ~IsSpace(line[i + 1])})

\* the reference list of a content line: what follows the separator
RefPart(line) ==
    IF HasSeparator(line) THEN SubSeq(line, SeparatorEnd(line) + 1, Len(line)) ELSE <<>>

\* the subject of a content line: what precedes the separator
SubjectPart(line) ==
    IF HasSeparator(line) THEN Trimmed(SubSeq(line, 1, SeparatorStart(line) - 1)) ELSE line

\* a line after which the parser starts afresh: a divider, or a content line
\* that completes a row
Closes(line) ==
    \/ IsLetterLine(line)
    \/ HasSeparator(line) /\ line[Len(line)] # ","

\* the first line of the stretch of input accumulated when line k is read
StretchStart(k) ==
    LET closed == {j \in 1..(k - 1) : Closes(LineAt(j))}
    IN  IF closed = {} THEN 1 ELSE SetMax(closed) + 1

\* the pages written for each book on lines from..to, earlier lines first
RECURSIVE PagesOnLines(_, _)
PagesOnLines(from, to) ==
    IF from > to THEN [b \in Books |-> <<>>]
    ELSE LET before == PagesOnLines(from, to - 1)
             tokens == Tokens(RefPart(LineAt(to)))
         IN  [b \in Books |-> before[b] \o PagesAmong(tokens, b)]

RECURSIVE TotalLen(_)
TotalLen(ps) == IF ps = <<>> THEN 0 ELSE Len(Head(ps)) + TotalLen(Tail(ps))

\* the number of characters of a field before its i-th page
Before(ps, i) == 1 + TotalLen(SubSeq(ps, 1, i - 1)) + 2 * (i - 1)

\* field is the output form of the page list ps: empty for no page, else the
\* pages in order, ", " between neighbours, one double quote at either end
Shows(field, ps) ==
    IF ps = <<>> THEN field = <<>>
    ELSE /\ Len(field) = TotalLen(ps) + 2 * (Len(ps) - 1) + 2
         /\ field[1] = "\""
         /\ field[Len(field)] = "\""
         /\ \A i \in 1..Len(ps) :
                SubSeq(field, Before(ps, i) + 1, Before(ps, i) + Len(ps[i])) = ps[i]
         /\ \A i \in 1..(Len(ps) - 1) :
                /\ field[Before(ps, i) + Len(ps[i]) + 1] = ","
                /\ field[Before(ps, i) + Len(ps[i]) + 2] = " "

\* the step of the loop that reads line idx appends exactly the row r
Appends(r) == data' = Append(data, r)

(***************************************************************************)
(* Entries: a subject's line and the lines that continue it.                *)
(***************************************************************************)
\* line k continues the content line before it, which ended with a comma
Continues(k) ==
    /\ IsContent(LineAt(k))
    /\ \E j \in 1..(k - 1) :
        /\ IsContent(LineAt(j))
        /\ LineAt(j)[Len(LineAt(j))] = ","
        /\ \A m \in (j + 1)..(k - 1) : LineAt(m) = <<>>

\* line k opens an entry
Opens(k) == IsContent(LineAt(k)) /\ ~Continues(k)

\* the entry that line k belongs to
EntryOf(k) == SetMax({h \in 1..k : Opens(h)})

\* the references written on line k: after the separator on the line that
\* opens an entry; on a continuation after the tab, or the whole line
WrittenOn(k) ==
    IF Opens(k) THEN RefPart(LineAt(k))
    ELSE IF \E i \in 1..Len(LineAt(k)) : LineAt(k)[i] = "\t" THEN RefPart(LineAt(k))
    ELSE LineAt(k)

RECURSIVE EntryPages(_, _, _)
EntryPages(h, b, k) ==
    IF k < h THEN <<>>
    ELSE EntryPages(h, b, k - 1)
         \o (IF k = h \/ (Continues(k) /\ EntryOf(k) = h)
             THEN PagesWritten(WrittenOn(k), b) ELSE <<>>)

IsRowOf(row, h) ==
    /\ row[1] = SubjectPart(LineAt(h))
    /\ \A b \in Books : Shows(row[b + 1], EntryPages(h, b, Len(lines)))

(***************************************************************************)
(* C1. Continuation: a subject line with references that ends with a       *)
(* comma, followed by a line of further references that does not, gives    *)
(* exactly one row, for that subject, with the references of both lines;   *)
(* "Apples<TAB>1:10, 2:20," then "<TAB>3:30" gives the one row Apples with *)
(* book 1 = 10, book 2 = 20, book 3 = 30 and books 4-6 empty.              *)
(***************************************************************************)
ContinuationExample == <<L_ApplesCont, L_Tab330>>

ContinuationRow ==
    <<<<"A", "p", "p", "l", "e", "s">>,
      <<"\"", "1", "0", "\"">>, <<"\"", "2", "0", "\"">>, <<"\"", "3", "0", "\"">>,
      <<>>, <<>>, <<>>>>

C1_Continuation ==
    /\ (pc = "done" /\ lines = ContinuationExample) => data = <<ContinuationRow>>
    /\ (/\ pc = "done"
        /\ Len(lines) = 2
        /\ HasSeparator(LineAt(1))
        /\ LineAt(1)[Len(LineAt(1))] = ","
        /\ IsContent(LineAt(2))
        /\ LineAt(2)[Len(LineAt(2))] # ","
        /\ \E b \in Books : PagesWritten(RefPart(LineAt(1)), b) # <<>>
        /\ \E b \in Books : PagesWritten(WrittenOn(2), b) # <<>>)
       => (Len(data) = 1 /\ data[1][1] = SubjectPart(LineAt(1)))

(***************************************************************************)
(* C2. No reference is lost or misattributed: every reference with a book  *)
(* in 1..6 written on a content line is in the output exactly once, in the *)
(* row of the subject of its entry (the subject's line and the lines that  *)
(* continue it after a trailing comma), and in no other row.               *)
(***************************************************************************)
C2_NoReferenceLostOrMisattributed ==
    pc = "done" =>
        /\ \A h \in 1..Len(lines) :
               Opens(h) /\ (\E b \in Books : EntryPages(h, b, Len(lines)) # <<>>)
               => \E j \in 1..Len(data) : IsRowOf(data[j], h)
        /\ \A j \in 1..Len(data) :
               (\E b \in Books : data[j][b + 1] # <<>>)
               => \E h \in 1..Len(lines) : Opens(h) /\ IsRowOf(data[j], h)

(***************************************************************************)
(* C4. Divider detection: a trimmed line takes the divider path exactly    *)
(* when it is one alphabetic character. Then any pending subject is        *)
(* flushed as a row, and a divider row (that character, six empty book     *)
(* fields) is appended and the accumulator is reset; a line of several     *)
(* characters, or of one non-alphabetic character, appends no row made of  *)
(* the line itself and six empty fields, and when it appends no row it     *)
(* keeps the pages accumulated so far.                                     *)
(***************************************************************************)
C4_DividerDetection ==
    [][InLoop /\ LineAt(idx) # <<>> =>
        IF IsLetterLine(LineAt(idx))
        THEN /\ data' = data
                        \o (IF current_subject # <<>>
                            THEN <<SubjectRow(current_subject, book_pages)>>
                            ELSE <<>>)
                        \o <<<<LineAt(idx)>> \o SixEmpty>>
             /\ current_subject' = <<>>
             /\ \A b \in Books : book_pages'[b] = <<>>
        ELSE /\ \A j \in 1..Len(data') :
                    j > Len(data) => data'[j] # <<LineAt(idx)>> \o SixEmpty
             /\ data' = data =>
                    \A b \in Books :
                        SubSeq(book_pages'[b], 1, Len(book_pages[b])) = book_pages[b]]_vars

C4_Witness ==
    /\ pc = "done"
    /\ \E k \in 1..Len(lines) : IsLetterLine(LineAt(k)) /\ lines[k] # LineAt(k)
    /\ \E k \in 1..Len(lines) : LineAt(k) = L_Seven
    /\ \E k \in 1..Len(lines) : LineAt(k) = L_LetterRef
    /\ data = <<<<<<"b">>>> \o SixEmpty, <<<<"C">>>> \o SixEmpty>>

(***************************************************************************)
(* C6. End to end: the lines "A", "Apples<TAB>1:5,1:6", "Bananas<TAB>2:9"  *)
(* give three rows in this order: the divider A with six empty fields;     *)
(* Apples with Book 1 = "5, 6" in quotes and Books 2-6 empty; Bananas with *)
(* Book 2 = "9" in quotes and the others empty. And every content line     *)
(* with a subject, a separator and no trailing comma yields its own row,   *)
(* in input order.                                                         *)
(***************************************************************************)
EndToEndExample == <<L_A, L_Apples56, L_Bananas>>

EndToEndRows ==
    <<<<<<"A">>, <<>>, <<>>, <<>>, <<>>, <<>>, <<>>>>,
      <<<<"A", "p", "p", "l", "e", "s">>,
        <<"\"", "5", ",", " ", "6", "\"">>, <<>>, <<>>, <<>>, <<>>, <<>>>>,
      <<<<"B", "a", "n", "a", "n", "a", "s">>,
        <<>>, <<"\"", "9", "\"">>, <<>>, <<>>, <<>>, <<>>>>>>

C6_EndToEnd ==
    /\ [](pc = "done" /\ lines = EndToEndExample => data = EndToEndRows)
    /\ [][InLoop /\ HasSeparator(LineAt(idx)) /\ LineAt(idx)[Len(LineAt(idx))] # ","
          => /\ Len(data') = Len(data) + 1
             /\ SubSeq(data', 1, Len(data)) = data
             /\ data'[Len(data')][1] = SubjectPart(LineAt(idx))]_vars

C6_Witness == pc = "done" /\ lines = EndToEndExample /\ Len(data) = 3

(***************************************************************************)
(* C9. Page order and duplicates are preserved: in every emitted row, for  *)
(* every book, the pages stand in the order in which their tokens were     *)
(* read, left to right within a line and earlier lines first, a page read  *)
(* k times standing k times; none is sorted away, dropped or moved to      *)
(* another book.                                                           *)
(***************************************************************************)
C9_OrderAndDuplicates ==
    /\ [](pc = "loop" =>
            LET read == PagesOnLines(StretchStart(idx), idx - 1)
            IN  \A b \in Books : book_pages[b] = read[b])
    /\ [][InLoop /\ data' # data /\ IsContent(LineAt(idx)) =>
            LET read == PagesOnLines(StretchStart(idx), idx)
            IN  /\ Len(data') = Len(data) + 1
                /\ \A b \in Books : Shows(data'[Len(data')][b + 1], read[b])]_vars

C9_Witness ==
    /\ pc = "done"
    /\ lines = <<L_ApplesCont, L_Dups, L_Mixed>>
    /\ data[1][2] = <<"\"", "1", "0", ",", " ", "7", ",", " ", "3", ",", " ", "7", "\"">>
    /\ data[1][3] = <<"\"", "2", "0", ",", " ", "8", "\"">>

(***************************************************************************)
(* C10. Row formatting: every row has seven fields, the subject and Book 1 *)
(* to Book 6; a book field is empty when the book's page list is empty,    *)
(* else it is the pages joined by ", " inside one pair of double quotes.   *)
(***************************************************************************)
C10_RowFormat ==
    /\ [](\A j \in 1..Len(data) : Len(data[j]) = 7)
    /\ [][InLoop /\ data' # data =>
            IF IsDivider(CurrentLine)
            THEN \A b \in Books : data'[Len(data')][b + 1] = <<>>
            ELSE LET parts == Parts(CurrentLine)
                     held == IF Len(parts) > 1
                             THEN AddRefs(book_pages, Refs(parts[2]))
                             ELSE book_pages
                 IN  \A b \in Books : Shows(data'[Len(data')][b + 1], held[b])]_vars

C10_Witness ==
    /\ pc = "done"
    /\ lines = <<L_PaddedB, L_Dups, L_Mixed>>
    /\ Len(data) = 2
    /\ data[1] = <<<<"b">>>> \o SixEmpty
    /\ data[2][2] = <<"\"", "7", ",", " ", "3", ",", " ", "7", "\"">>
    /\ data[2][3] = <<"\"", "8", "\"">>
    /\ data[2][4] = <<"\"", "4", "5", "a", ",", " ", "4", "5", "\"">>
    /\ data[2][5] = <<>>

(***************************************************************************)
(* C3. parse_index is idempotent: called twice on the same line sequence,  *)
(* in any order and with other calls in between, it returns identical row  *)
(* sequences; the subject and the page lists of one call are never visible *)
(* to a later call.                                                        *)
(***************************************************************************)
C3_Idempotent ==
    /\ [](pc = "done" /\ first.called /\ first.arg = lines => data = first.result)
    /\ [][pc = "done" /\ pc' = "loop" =>
            /\ current_subject' = <<>>
            /\ \A b \in Books : book_pages'[b] = <<>>
            /\ data' = <<>>]_vars

\* a later call on the remembered argument is about to return, the call
\* before it having left pages behind
C3_Witness ==
    /\ pc = "loop"
    /\ idx = Len(lines) + 1
    /\ first.called
    /\ first.arg = lines
    /\ lines = <<L_Bananas, L_ApplesCont>>
    /\ data = first.result
    /\ Len(data) = 1

(***************************************************************************)
(* C5. Reference grammar and book range: of the comma-separated tokens of  *)
(* a reference list, the page string is appended to the list of book b     *)
(* exactly when the trimmed token reads <integer> <blanks> : <blanks>      *)
(* <non-blank token> with the integer b in 1..6: "3:45" gives book 3 page  *)
(* 45, "3 : 45a" book 3 page 45a; "7:12", "0:3" and "abc" change no list.  *)
(***************************************************************************)
\* the reference part r of the line "x<TAB><r>," that SpecRef reads
RefPartRead == SubSeq(lines[1], 3, Len(lines[1]) - 1)

OnlyBook(b, pages) == [i \in Books |-> IF i = b THEN pages ELSE <<>>]

C5_ReferenceGrammar ==
    pc = "loop" /\ idx = 2 =>
        /\ DOMAIN book_pages = Books
        /\ \A b \in Books : book_pages[b] = PagesWritten(RefPartRead, b)
        /\ RefPartRead = R_3_45 => book_pages = OnlyBook(3, <<<<"4", "5">>>>)
        /\ RefPartRead = R_3_45a => book_pages = OnlyBook(3, <<<<"4", "5", "a">>>>)
        /\ RefPartRead \in {R_7_12, R_0_3, R_abc} => book_pages = OnlyBook(1, <<>>)
        /\ data = <<>>

C5_Witness ==
    /\ pc = "loop"
    /\ idx = 2
    /\ RefPartRead = R_3_45a
    /\ book_pages[3] = <<<<"4", "5", "a">>>>

(***************************************************************************)
(* C7. Marker absent: for every document text that does not contain the    *)
(* marker string, extract_text returns no line, in the docx, the pdf and   *)
(* the txt branch.                                                         *)
(***************************************************************************)
MarkerAt(text, p) ==
    /\ p + Len(marker) - 1 <= Len(text)
    /\ \A i \in 1..Len(marker) : text[p + i - 1] = marker[i]

HasMarker(text) == \E p \in 1..Len(text) : MarkerAt(text, p)

Branches == {"docx", "pdf", "txt"}

C7_MarkerAbsent ==
    pc = "extracted" /\ file.ext \in Branches /\ ~HasMarker(FullText(file))
    => lines = <<>>

C7_Witness ==
    /\ pc = "extracted"
    /\ file = [ext |-> "txt", body |-> <<P_LowerIndex, P_ReturnNewline, P_Note>>]
    /\ lines = <<>>

(***************************************************************************)
(* C8. Marker present: for every document text that contains the marker,   *)
(* extract_text returns exactly what follows the first occurrence of the   *)
(* marker (later occurrences stay in the body), trimmed of leading and     *)
(* trailing whitespace and split into lines; nothing before or inside the  *)
(* first occurrence is returned.                                           *)
(***************************************************************************)
FirstMarker(text) ==
    CHOOSE p \in 1..Len(text) :
        MarkerAt(text, p) /\ \A q \in 1..(p - 1) : ~MarkerAt(text, q)

\* what follows the first occurrence of the marker, trimmed
IndexBody(text) ==
    Trimmed(SubSeq(text, FirstMarker(text) + Len(marker), Len(text)))

C8_MarkerPresent ==
    pc = "extracted" /\ file.ext \in Branches /\ HasMarker(FullText(file))
    => /\ lines = SplitLines(IndexBody(FullText(file)))
       /\ \A k \in 1..Len(lines) : \A i \in 1..Len(lines[k]) : lines[k][i] \notin LineBreaks
       /\ Concat(lines) = SelectSeq(IndexBody(FullText(file)), LAMBDA c : c \notin LineBreaks)

C8_Witness ==
    /\ pc = "extracted"
    /\ file = [ext |-> "docx", body |-> <<marker, P_Entry, marker>>]
    /\ lines = <<<<"A", "p", "p", "l", "e", "s", "\t", "1", ":", "5", " ">>, P_Index, P_Note>>

(***************************************************************************)
(* C14. Blank lines are inert: reading a line that is empty after trimming *)
(* changes neither the subject, nor a page list, nor the output; two       *)
(* inputs that differ only in blank lines give the same rows; an input     *)
(* with no line, or with blank lines only, gives no row.                   *)
(***************************************************************************)
\* ls without its blank lines
NonBlank(ls) == SelectSeq(ls, LAMBDA l : Trimmed(l) # <<>>)

C14_BlankLinesInert ==
    /\ [][InLoop /\ LineAt(idx) = <<>> =>
            /\ current_subject' = current_subject
            /\ book_pages' = book_pages
            /\ data' = data]_vars
    /\ [](pc = "done" /\ first.called /\ NonBlank(first.arg) = NonBlank(lines)
            => data = first.result)
    /\ [](pc = "done" /\ NonBlank(lines) = <<>> => data = <<>>)

\* a call has returned on the remembered input with a blank line put in
C14_Witness ==
    /\ pc = "done"
    /\ first.called
    /\ first.arg = <<L_Bananas>>
    /\ lines = <<L_Blank, L_Bananas>>
    /\ Len(data) = 1

(***************************************************************************)
(* C15. Accumulator invariant: before the first line, between two lines    *)
(* and after the last line, either the subject and the six page lists are  *)
(* all empty or the subject is not empty; the subject is never empty while *)
(* a page list is not.                                                     *)
(***************************************************************************)
C15_AccumulatorInvariant ==
    pc \in {"loop", "done"} =>
        \/ current_subject # <<>>
        \/ \A b \in Books : book_pages[b] = <<>>

(***************************************************************************)
(* C16. Continuation rule: reading a content line that ends with a comma   *)
(* appends no row, whatever the subject; reading a content line that does  *)
(* not end with a comma while there is a subject (one in progress, or the  *)
(* one this line supplies) appends exactly one row, for that subject, and  *)
(* leaves the subject and the six page lists empty.                        *)
(***************************************************************************)
C16_ContinuationRule ==
    [][InLoop /\ IsContent(LineAt(idx)) =>
        LET line == LineAt(idx)
        IN  IF line[Len(line)] = ","
            THEN data' = data
            ELSE (current_subject # <<>> \/ HasSeparator(line)) =>
                    /\ Len(data') = Len(data) + 1
                    /\ SubSeq(data', 1, Len(data)) = data
                    /\ data'[Len(data')][1] = (IF current_subject # <<>>
                                               THEN current_subject
                                               ELSE SubjectPart(line))
                    /\ current_subject' = <<>>
                    /\ \A b \in Books : book_pages'[b] = <<>>]_vars

\* a line ending with a comma was read and gave no row, the next line gave
\* one and left the accumulator empty
C16_Witness ==
    /\ pc = "loop"
    /\ idx = 3
    /\ LineAt(1) = L_Dups
    /\ LineAt(2) = L_Apples56
    /\ Len(data) = 1
    /\ \A b \in Books : book_pages[b] = <<>>

(***************************************************************************)
(* C17. Subject capture rule: the first part of a content line becomes the *)
(* subject only if there is no subject in progress and the line does not   *)
(* end with a comma. So a line with a separator that ends with a comma,    *)
(* read while there is no subject, supplies no subject and gives no row,   *)
(* but its references with a book in 1..6 are accumulated; and the row of  *)
(* the next line that supplies a subject, no divider coming between, shows *)
(* them before its own.                                                    *)
(***************************************************************************)
C17_SubjectCapture ==
    [][InLoop /\ HasSeparator(LineAt(idx)) =>
        LET line == LineAt(idx)
            comma == line[Len(line)] = ","
            captured == \/ current_subject' = SubjectPart(line)
                        \/ /\ data' # data
                           /\ data'[Len(data')][1] = SubjectPart(line)
        IN  /\ captured => (current_subject = <<>> /\ ~comma)
            /\ (comma /\ current_subject = <<>>) =>
                    /\ data' = data
                    /\ current_subject' = <<>>
                    /\ \A b \in Books :
                           book_pages'[b] = book_pages[b] \o PagesWritten(RefPart(line), b)
            /\ (captured /\ Len(data') = Len(data) + 1) =>
                    \A b \in Books :
                        Shows(data'[Len(data')][b + 1],
                              book_pages[b] \o PagesWritten(RefPart(line), b))]_vars

\* the pages of "Apples", whose line ends with a comma, stand in the row of
\* "Bananas"
C17_Witness ==
    /\ pc = "done"
    /\ lines = <<L_ApplesCont, L_Bananas>>
    /\ Len(data) = 1
    /\ data[1][1] = <<"B", "a", "n", "a", "n", "a", "s">>
    /\ data[1][2] = <<"\"", "1", "0", "\"">>
    /\ data[1][3] = <<"\"", "2", "0", ",", " ", "9", "\"">>

(***************************************************************************)
(* C18. A divider resets the whole accumulator: right after a divider line *)
(* is read the subject and the six page lists are empty, whatever they     *)
(* held; so a row written after a divider shows only pages of lines that   *)
(* follow that divider.                                                    *)
(***************************************************************************)
\* the last divider line before line k, or 0
LastDivider(k) ==
    LET dividers == {j \in 1..(k - 1) : IsLetterLine(LineAt(j))}
    IN  IF dividers = {} THEN 0 ELSE SetMax(dividers)

C18_DividerResets ==
    /\ [][InLoop /\ IsLetterLine(LineAt(idx)) =>
            /\ current_subject' = <<>>
            /\ \A b \in Books : book_pages'[b] = <<>>]_vars
    /\ [][InLoop /\ IsContent(LineAt(idx)) /\ data' # data =>
            \E from \in (LastDivider(idx) + 1)..idx :
                LET read == PagesOnLines(from, idx)
                IN  \A b \in Books : Shows(data'[Len(data')][b + 1], read[b])]_vars

\* pages were accumulated, a divider was read, and the row written after it
\* has none of them
C18_Witness ==
    /\ pc = "done"
    /\ lines = <<L_ApplesCont, L_A, L_Bananas>>
    /\ Len(data) = 2
    /\ data[2][2] = <<>>
    /\ data[2][3] = <<"\"", "9", "\"">>

(***************************************************************************)
(* C19. No subject is carried across lines: when a line is about to be     *)
(* read, and at the end of the input, current_subject is empty. So the     *)
(* divider path appends the divider row only, the flush after the loop     *)
(* appends nothing, and a data row is appended only by the step that reads *)
(* the line whose first part is the row's subject.                         *)
(***************************************************************************)
C19_NoSubjectCarried ==
    /\ [](pc \in {"loop", "done"} => current_subject = <<>>)
    /\ [][InLoop /\ IsLetterLine(LineAt(idx)) =>
            data' = Append(data, <<LineAt(idx)>> \o SixEmpty)]_vars
    /\ [][pc = "loop" /\ idx > Len(lines) => data' = data]_vars
    /\ [][InLoop /\ IsContent(LineAt(idx)) /\ data' # data =>
            /\ HasSeparator(LineAt(idx))
            /\ Len(data') = Len(data) + 1
            /\ SubSeq(data', 1, Len(data)) = data
            /\ data'[Len(data')][1] = SubjectPart(LineAt(idx))]_vars

\* a data row, a divider row and a data row, and the end of the input: the
\* two flushes of a pending subject were passed and appended nothing
C19_Witness ==
    /\ pc = "done"
    /\ lines = <<L_Apples56, L_A, L_Bananas>>
    /\ Len(data) = 3
    /\ data[2] = <<L_A>> \o SixEmpty

(***************************************************************************)
(* C20. The rows correspond one to one, in order, to the input lines that  *)
(* are a divider or a content line with a separator and no comma at its    *)
(* end: the j-th row is the divider row of the j-th such line, or a row    *)
(* whose subject is that line's first part; a blank line, a single token   *)
(* and a line ending with a comma give no row.                             *)
(***************************************************************************)
\* the lines among 1..n that give a row, in their order
RowLines(n) == SelectSeq([k \in 1..n |-> k], LAMBDA k : Closes(LineAt(k)))

C20_RowsCorrespondToLines ==
    pc \in {"loop", "done"} =>
        LET from == RowLines(idx - 1)
        IN  /\ Len(data) = Len(from)
            /\ \A j \in 1..Len(from) :
                   LET line == LineAt(from[j])
                   IN  IF IsLetterLine(line)
                       THEN data[j] = <<line>> \o SixEmpty
                       ELSE /\ Len(data[j]) = 7
                            /\ data[j][1] = SubjectPart(line)

\* a single token, a divider with blanks around it and a content line:
\* two rows
C20_Witness ==
    /\ pc = "done"
    /\ lines = <<L_Word, L_PaddedB, L_Mixed>>
    /\ Len(data) = 2
    /\ data[1][1] = <<"b">>
    /\ data[2][1] = <<"K", "i", "w", "i">>

(***************************************************************************)
(* C11. No index data aborts the conversion: in the convert-all loop, in   *)
(* the single-file conversion, in its retry and in the retry of            *)
(* write_csv_and_move (answer r), when extract_text returns no line for    *)
(* the file, the attempt fails with "No index data found after marker":    *)
(* parse_index is not entered, write_csv_and_move is not called, no CSV is *)
(* written, the failure is logged under the name of the path, and the      *)
(* program goes on (next attempt or next file, retry prompt, or menu).     *)
(***************************************************************************)
\* the step begins a conversion of the current file
BeginsAttempt ==
    \/ driver.at = "convert"
    \/ driver.at = "move" /\ driver'.choice \in {<<"r">>, <<"R">>}

\* extract_text returns for the current file, and returns no line
NoLines ==
    /\ CurrentFile \in driver.present
    /\ driver.dir[CurrentFile].readable
    /\ extract_text(driver.dir[CurrentFile]) = <<>>

C11_NoIndexDataAborts ==
    [][BeginsAttempt /\ NoLines =>
        /\ pc' # "loop"
        /\ driver'.at \notin {"parsing", "move", "exited"}
        /\ driver'.written = NoCsv
        /\ driver'.log =
              <<IF driver.at = "move"
                THEN Message("Retry failed", CurrentFile, 0, NoIndexDataFound)
                ELSE IF driver.ctx = "all"
                THEN Message("Attempt failed", CurrentFile, driver.attempt + 1,
                             NoIndexDataFound)
                ELSE IF driver.ctx = "single"
                THEN Message("Error processing", CurrentFile, 0, NoIndexDataFound)
                ELSE Message("Retry failed", CurrentFile, 0, NoIndexDataFound)>>
        /\ (driver.at = "convert" /\ driver.ctx = "single") => driver'.at = "retry"
        /\ (driver.at = "convert" /\ driver.ctx = "retry") => driver'.at = "menu"
        /\ (driver.at = "convert" /\ driver.ctx = "all") => driver'.at \in {"convert", "menu"}
        /\ driver.at = "move" => driver'.at \in {"convert", "menu"}]_vars

\* the file was converted, then replaced by one without the marker, and the
\* answer r has just failed
C11_Witness ==
    /\ driver.choice = <<"r">>
    /\ driver.log = <<Message("Retry failed", 1, 0, NoIndexDataFound)>>
    /\ driver.dir[1] = F_Plain

(***************************************************************************)
(* C12. Bounded retry in convert-all mode: at most max_attempts = 3        *)
(* attempts are begun for a file. When write_csv_and_move returns, and     *)
(* when the third attempt fails, the loop goes to the next file of the     *)
(* list, or ends after the last one; an earlier failure is followed by a   *)
(* new attempt on the same file; nothing else moves the loop, and the list *)
(* stays as selected, so the files are handled one after another in list   *)
(* order and a failing file does not keep the later ones from their turn.  *)
(***************************************************************************)
C12_BoundedRetry ==
    /\ [](driver.at # "none" /\ driver.ctx = "all" =>
            /\ driver.tried <= max_attempts
            /\ driver.attempt < max_attempts
            /\ driver.fi \in 1..Len(driver.files))
    /\ [][driver.at # "none" /\ driver.ctx = "all" =>
            LET nth == IF driver.at = "convert" THEN driver.tried + 1 ELSE driver.tried
                failed == /\ driver'.log # <<>>
                          /\ driver'.log[1].text = "Attempt failed"
                returned == /\ ~failed
                            /\ driver.at \in {"parsing", "move"}
                            /\ driver'.at \notin {"parsing", "move"}
                sameFile == /\ driver'.ctx = "all"
                            /\ driver'.files = driver.files
                            /\ driver'.fi = driver.fi
                nextFile == IF driver.fi < Len(driver.files)
                            THEN /\ driver'.ctx = "all"
                                 /\ driver'.files = driver.files
                                 /\ driver'.fi = driver.fi + 1
                                 /\ driver'.at = "convert"
                                 /\ driver'.tried = 0
                            ELSE driver'.at = "menu"
            IN  /\ returned => nextFile
                /\ failed =>
                    /\ driver'.log[1].attempt = nth
                    /\ driver'.log[1].file = CurrentFile
                    /\ IF nth = max_attempts THEN nextFile
                       ELSE sameFile /\ driver'.at = "convert" /\ driver'.tried = nth
                /\ (~returned /\ ~failed) => sameFile]_vars

\* the first file of two has failed three times and is skipped: the loop is
\* about to convert the second
C12_Witness ==
    /\ driver.at = "convert"
    /\ driver.ctx = "all"
    /\ Len(driver.files) = 2
    /\ driver.fi = 2
    /\ driver.tried = 0
    /\ driver.log = <<Message("Attempt failed", driver.files[1], 3, NoIndexDataFound)>>

(***************************************************************************)
(* C13. File selection: when get_file_choice lists N files, numbered 1..N, *)
(* entering a number k in 1..N selects the k-th listed file alone, with    *)
(* convert_all false; entering 0 selects all the listed files; entering 4  *)
(* quits; any other entry selects no file: "Invalid file selection" is     *)
(* logged and the main loop is back at its menu.                           *)
(***************************************************************************)
\* the entry reads as the number k, 0 <= k <= 9: the digit of k, after zeros
\* or not, with blanks around or not
Enters(entry, k) ==
    LET t == Trimmed(entry)
    IN  /\ t # <<>>
        /\ t[Len(t)] = DigitChars[k + 1]
        /\ \A i \in 1..(Len(t) - 1) : t[i] = "0"

C13_FileSelection ==
    [][driver.at = "choose" /\ driver'.choice # NoAnswer =>
        LET listed == Glob(driver, driver.type)
            N == Len(listed)
            entry == driver'.choice
        IN  /\ \A k \in 1..N :
                Enters(entry, k) =>
                    /\ driver'.at = "convert"
                    /\ driver'.ctx = "single"
                    /\ driver'.files = <<listed[k]>>
                    /\ driver'.convert_all = "False"
            /\ Enters(entry, 0) =>
                    /\ driver'.at = "convert"
                    /\ driver'.ctx = "all"
                    /\ driver'.files = listed
                    /\ driver'.convert_all = "True"
            /\ Enters(entry, 4) => driver'.at = "exited"
            /\ (\A k \in (0..N) \cup {4} : ~Enters(entry, k)) =>
                    /\ driver'.at = "menu"
                    /\ ~driver'.selected
                    /\ driver'.log = <<Message("Invalid file selection", 0, 0, "")>>]_vars
====
